---- MODULE Spec2Model ----
(***************************************************************************)
(* Model of the asynchronous file sorter (task1.py): main, process_files,  *)
(* get_all_files, move_file and create_directory, over an explicit         *)
(* filesystem; and of the word counter (task2.py): main, fetch_text and    *)
(* the class MapReduce.  The two programs share no state: a specification  *)
(* runs one of them and leaves the variables of the other alone.           *)
(*                                                                         *)
(* A file or directory name is a sequence of one-character strings, a path *)
(* is a sequence of names (the empty path is the filesystem root), and the *)
(* filesystem is a function from the existing paths to their nodes.        *)
(***************************************************************************)
EXTENDS Integers, Sequences, FiniteSets, TLC

VARIABLES
    fs,               \* the filesystem: existing path -> node
    free,             \* bytes still free on the volume of the destination
    argv,             \* the two positional arguments, unresolved
    pc,               \* position of main
    files,            \* process_files: the set returned by get_all_files
    extension_counts, \* process_files: extension key -> count
    total_files,      \* process_files: len(files)
    processed_files,  \* process_files: the nonlocal counter
    semaphore,        \* free slots of asyncio.Semaphore(10)
    tasks,            \* process_files: the list of coroutines, by their file
    task,             \* position of each move_with_progress coroutine
    calls,            \* number of move_file calls made for each file
    outcome,          \* what move_file logged for each file, and where it went
    log,              \* the log lines of main and process_files, in order
    fs0,              \* the filesystem when main started
    pc2,              \* task2.py: position of main
    text,             \* task2.py: what fetch_text returned
    num_workers,      \* task2.py: MapReduce.num_workers
    mapped_data,      \* task2.py: the list returned by parallel_map
    word_frequencies  \* task2.py: the dict returned by reduce_function

task1_vars == <<fs, free, argv, pc, files, extension_counts, total_files,
                processed_files, semaphore, tasks, task, calls, outcome, log, fs0>>

task2_vars == <<pc2, text, num_workers, mapped_data, word_frequencies>>

vars == <<task1_vars, task2_vars>>

----------------------------------------------------------------------------
(* Strings as character sequences: str.lower, str(int), Path.suffix, .stem *)

LowerChar(c) ==
    CASE c = "A" -> "a" [] c = "B" -> "b" [] c = "C" -> "c" [] c = "D" -> "d"
      [] c = "E" -> "e" [] c = "F" -> "f" [] c = "G" -> "g" [] c = "H" -> "h"
      [] c = "I" -> "i" [] c = "J" -> "j" [] c = "K" -> "k" [] c = "L" -> "l"
      [] c = "M" -> "m" [] c = "N" -> "n" [] c = "O" -> "o" [] c = "P" -> "p"
      [] c = "Q" -> "q" [] c = "R" -> "r" [] c = "S" -> "s" [] c = "T" -> "t"
      [] c = "U" -> "u" [] c = "V" -> "v" [] c = "W" -> "w" [] c = "X" -> "x"
      [] c = "Y" -> "y" [] c = "Z" -> "z" [] OTHER -> c

lower(s) == [i \in 1..Len(s) |-> LowerChar(s[i])]

Digit(d) ==
    CASE d = 0 -> "0" [] d = 1 -> "1" [] d = 2 -> "2" [] d = 3 -> "3"
      [] d = 4 -> "4" [] d = 5 -> "5" [] d = 6 -> "6" [] d = 7 -> "7"
      [] d = 8 -> "8" [] OTHER -> "9"

RECURSIVE str(_)
str(n) == IF n < 10 THEN <<Digit(n)>> ELSE Append(str(n \div 10), Digit(n % 10))

\* 1-based position of the last "." of a name, 0 when there is none
rfind_dot(name) ==
    LET dots == {i \in 1..Len(name) : name[i] = "."}
    IN  IF dots = {} THEN 0 ELSE CHOOSE i \in dots : \A j \in dots : j <= i

\* pathlib: the suffix starts at the last dot unless that dot is the first
\* or the last character of the name
suffix(name) ==
    LET i == rfind_dot(name)
    IN  IF 1 < i /\ i < Len(name) THEN SubSeq(name, i, Len(name)) ELSE <<>>

stem(name) ==
    LET i == rfind_dot(name)
    IN  IF 1 < i /\ i < Len(name) THEN SubSeq(name, 1, i - 1) ELSE name

startswith(name, c) == Len(name) > 0 /\ name[1] = c

----------------------------------------------------------------------------
(* Paths *)

PathName(p) == IF Len(p) = 0 THEN <<>> ELSE p[Len(p)]
Parent(p) == IF Len(p) = 0 THEN p ELSE SubSeq(p, 1, Len(p) - 1)
IsPrefix(p, q) == Len(p) <= Len(q) /\ SubSeq(q, 1, Len(p)) = p

Dot == <<".">>
DotDot == <<".", ".">>

\* Path.resolve(): "." segments dropped, ".." steps to the parent
RECURSIVE resolve(_)
resolve(arg) ==
    IF Len(arg) = 0 THEN <<>>
    ELSE LET head == resolve(SubSeq(arg, 1, Len(arg) - 1))
             last == arg[Len(arg)]
         IN  IF last = Dot THEN head
             ELSE IF last = DotDot THEN Parent(head)
             ELSE Append(head, last)

----------------------------------------------------------------------------
(* The printable characters in code point order (without the quote, the    *)
(* backslash and the backquote, which no name of the model holds), for     *)
(* sorted() on extension keys                                              *)

Ascii ==
    <<" ", "!", "#", "$", "%", "&", "'", "(", ")", "*", "+", ",", "-",
      ".", "/", "0", "1", "2", "3", "4", "5", "6", "7", "8", "9", ":", ";",
      "<", "=", ">", "?", "@", "A", "B", "C", "D", "E", "F", "G", "H", "I",
      "J", "K", "L", "M", "N", "O", "P", "Q", "R", "S", "T", "U", "V", "W",
      "X", "Y", "Z", "[", "]", "^", "_", "a", "b", "c", "d", "e",
      "f", "g", "h", "i", "j", "k", "l", "m", "n", "o", "p", "q", "r", "s",
      "t", "u", "v", "w", "x", "y", "z", "{", "|", "}", "~">>

Ord(c) == CHOOSE i \in 1..Len(Ascii) : Ascii[i] = c

\* s < t in the order Python compares str: by code point, a proper prefix first
RECURSIVE StrLess(_, _)
StrLess(s, t) ==
    IF Len(t) = 0 THEN FALSE
    ELSE IF Len(s) = 0 THEN TRUE
    ELSE IF s[1] = t[1] THEN StrLess(Tail(s), Tail(t))
    ELSE Ord(s[1]) < Ord(t[1])

----------------------------------------------------------------------------
(* The fixed set of protected directory names, and the sentinel key *)

SYSTEM_DIRS ==
    { <<"S", "y", "s", "t", "e", "m", " ", "V", "o", "l", "u", "m", "e", " ",
        "I", "n", "f", "o", "r", "m", "a", "t", "i", "o", "n">>,
      <<"$", "R", "e", "c", "y", "c", "l", "e", ".", "B", "i", "n">>,
      <<"C", "o", "n", "f", "i", "g", ".", "M", "s", "i">>,
      <<"D", "o", "c", "u", "m", "e", "n", "t", "s", " ", "a", "n", "d", " ",
        "S", "e", "t", "t", "i", "n", "g", "s">>,
      <<"P", "r", "o", "g", "r", "a", "m", " ", "F", "i", "l", "e", "s">>,
      <<"P", "r", "o", "g", "r", "a", "m", " ", "F", "i", "l", "e", "s", " ",
        "(", "x", "8", "6", ")">>,
      <<"W", "i", "n", "d", "o", "w", "s">>,
      <<"R", "e", "c", "o", "v", "e", "r", "y">> }

no_extension == <<"n", "o", "_", "e", "x", "t", "e", "n", "s", "i", "o", "n">>

\* extension_of without str.lower
extension_of_keeps_case(p) ==
    IF suffix(PathName(p)) # <<>> THEN Tail(suffix(PathName(p)))
    ELSE no_extension

\* source.suffix[1:].lower() if source.suffix else no_extension
extension_of(p) ==
    IF suffix(PathName(p)) # <<>> THEN lower(Tail(suffix(PathName(p))))
    ELSE no_extension

----------------------------------------------------------------------------
(* The filesystem.  A node is                                              *)
(*   [kind : "file" or "dir", data : the bytes of a file, r : may be       *)
(*    opened for reading (file) or scanned (directory), w : entries may be *)
(*    created in and removed from it (directory), dev : its volume]        *)

exists(f, p) == p \in DOMAIN f
is_dir(f, p) == p \in DOMAIN f /\ f[p].kind = "dir"
is_file(f, p) == p \in DOMAIN f /\ f[p].kind = "file"

DirNode(dev) == [kind |-> "dir", data |-> <<>>, r |-> TRUE, w |-> TRUE, dev |-> dev]
FileNode(data, dev) == [kind |-> "file", data |-> data, r |-> TRUE, w |-> TRUE, dev |-> dev]

Put(f, p, node) == [q \in DOMAIN f \cup {p} |-> IF q = p THEN node ELSE f[q]]
Remove(f, p) == [q \in DOMAIN f \ {p} |-> f[q]]

\* os.scandir: the entries directly below d
Children(f, d) == {p \in DOMAIN f : Len(p) = Len(d) + 1 /\ Parent(p) = d}

\* os.mkdir of one segment, then the exist_ok rule of os.makedirs: an
\* OSError is swallowed when the path is a directory afterwards
mkdir_exist_ok(f, p) ==
    IF exists(f, p)
    THEN [fs |-> f, err |-> IF is_dir(f, p) THEN "none" ELSE "exists"]
    ELSE IF ~is_dir(f, Parent(p)) THEN [fs |-> f, err |-> "notdir"]
    ELSE IF ~f[Parent(p)].w THEN [fs |-> f, err |-> "perm"]
    ELSE [fs |-> Put(f, p, DirNode(f[Parent(p)].dev)), err |-> "none"]

\* os.makedirs(path, exist_ok=True): the missing ancestors first
RECURSIVE makedirs(_, _)
makedirs(f, p) ==
    IF Len(p) = 0 THEN [fs |-> f, err |-> "none"]
    ELSE LET up == IF exists(f, Parent(p)) THEN [fs |-> f, err |-> "none"]
                   ELSE makedirs(f, Parent(p))
         IN  IF up.err # "none" THEN up ELSE mkdir_exist_ok(up.fs, p)

\* shutil.copyfile as called by shutil.move: open the source, create the
\* destination, write until the volume is full
copy_file(f, fr, src, dst) ==
    LET dev  == f[Parent(dst)].dev
        data == f[src].data
    IN  IF ~f[src].r \/ ~f[Parent(dst)].w
        THEN [fs |-> f, free |-> fr, err |-> "perm"]
        ELSE IF fr[dev] < Len(data)
        THEN [fs   |-> Put(f, dst, FileNode(SubSeq(data, 1, fr[dev]), dev)),
              free |-> [fr EXCEPT ![dev] = 0],
              err  |-> "oserror"]
        ELSE [fs   |-> Put(f, dst, FileNode(data, dev)),
              free |-> [fr EXCEPT ![dev] = @ - Len(data)],
              err  |-> "none"]

\* os.unlink
unlink(f, fr, p) ==
    IF ~f[Parent(p)].w THEN [fs |-> f, free |-> fr, err |-> "perm"]
    ELSE [fs   |-> Remove(f, p),
          free |-> [fr EXCEPT ![f[p].dev] = @ + Len(f[p].data)],
          err  |-> "none"]

\* shutil_move that leaves the source behind when the rename succeeds
shutil_move_keeps_source(f, fr, src, dst) ==
    IF ~exists(f, src) THEN [fs |-> f, free |-> fr, err |-> "oserror"]
    ELSE IF /\ f[Parent(src)].w
            /\ f[Parent(dst)].w
            /\ f[Parent(src)].dev = f[Parent(dst)].dev
    THEN [fs |-> Put(f, dst, f[src]), free |-> fr, err |-> "none"]
    ELSE LET c == copy_file(f, fr, src, dst)
         IN  IF c.err # "none" THEN c ELSE unlink(c.fs, c.free, src)

\* shutil.move(src, dst) of a regular file to a path that does not exist:
\* os.rename, and when that raises OSError, copy then unlink
shutil_move(f, fr, src, dst) ==
    IF ~exists(f, src) THEN [fs |-> f, free |-> fr, err |-> "oserror"]
    ELSE IF /\ f[Parent(src)].w
            /\ f[Parent(dst)].w
            /\ f[Parent(src)].dev = f[Parent(dst)].dev
    THEN [fs |-> Put(Remove(f, src), dst, f[src]), free |-> fr, err |-> "none"]
    ELSE LET c == copy_file(f, fr, src, dst)
         IN  IF c.err # "none" THEN c ELSE unlink(c.fs, c.free, src)

----------------------------------------------------------------------------
(* get_all_files *)

RECURSIVE get_all_files(_, _)

\* get_all_files without the test for a leading "."
get_all_files_descends_hidden(f, source_dir) ==
    IF PathName(source_dir) \in SYSTEM_DIRS THEN {}
    ELSE IF ~is_dir(f, source_dir) \/ ~f[source_dir].r THEN {}
    ELSE UNION {
           IF is_dir(f, entry) /\ PathName(entry) \in SYSTEM_DIRS THEN {}
           ELSE IF is_file(f, entry)
                THEN (IF f[entry].r THEN {entry} ELSE {})
           ELSE IF is_dir(f, entry)
                THEN get_all_files(f, entry)
           ELSE {}
           : entry \in Children(f, source_dir) }

\* get_all_files with the permission errors of the entries caught by the
\* outer handler only: the scan of a directory ends at the entry that is
\* refused, and what was found in that directory is dropped
get_all_files_aborts_on_denied(f, source_dir) ==
    IF PathName(source_dir) \in SYSTEM_DIRS THEN {}
    ELSE IF ~is_dir(f, source_dir) \/ ~f[source_dir].r THEN {}
    ELSE IF \E entry \in Children(f, source_dir) :
               /\ ~f[entry].r
               /\ ~(is_dir(f, entry) /\ PathName(entry) \in SYSTEM_DIRS)
               /\ ~(is_dir(f, entry) /\ startswith(PathName(entry), "."))
    THEN {}
    ELSE UNION {
           IF is_dir(f, entry) /\ PathName(entry) \in SYSTEM_DIRS THEN {}
           ELSE IF is_file(f, entry) THEN {entry}
           ELSE IF is_dir(f, entry) /\ ~startswith(PathName(entry), ".")
                THEN get_all_files(f, entry)
           ELSE {}
           : entry \in Children(f, source_dir) }

\* get_all_files without the test of the name of the root
get_all_files_scans_protected_root(f, source_dir) ==
    IF ~is_dir(f, source_dir) \/ ~f[source_dir].r THEN {}
    ELSE UNION {
           IF is_dir(f, entry) /\ PathName(entry) \in SYSTEM_DIRS THEN {}
           ELSE IF is_file(f, entry)
                THEN (IF f[entry].r THEN {entry} ELSE {})
           ELSE IF is_dir(f, entry) /\ ~startswith(PathName(entry), ".")
                THEN get_all_files(f, entry)
           ELSE {}
           : entry \in Children(f, source_dir) }

get_all_files(f, source_dir) ==
    IF PathName(source_dir) \in SYSTEM_DIRS THEN {}
    ELSE IF ~is_dir(f, source_dir) \/ ~f[source_dir].r THEN {}
    ELSE UNION {
           IF is_dir(f, entry) /\ PathName(entry) \in SYSTEM_DIRS THEN {}
           ELSE IF is_file(f, entry)
                THEN (IF f[entry].r THEN {entry} ELSE {})
           ELSE IF is_dir(f, entry) /\ ~startswith(PathName(entry), ".")
                THEN get_all_files(f, entry)
           ELSE {}
           : entry \in Children(f, source_dir) }

----------------------------------------------------------------------------
(* move_file *)

\* f"{stem}_{counter}{source.suffix}"
new_name(source, counter) ==
    stem(PathName(source)) \o <<"_">> \o str(counter) \o suffix(PathName(source))

\* the while loop of move_file: the first candidate at which nothing exists
RECURSIVE first_free(_, _, _, _, _)
first_free(f, target_dir, source, destination, counter) ==
    IF ~exists(f, destination) THEN destination
    ELSE first_free(f, target_dir, source,
                    Append(target_dir, new_name(source, counter)), counter + 1)

\* the collision test made once, with "if" in place of "while"
resolve_destination_single_test(f, target_dir, source) ==
    IF exists(f, Append(target_dir, PathName(source)))
    THEN Append(target_dir, new_name(source, 1))
    ELSE Append(target_dir, PathName(source))

\* move_file without the collision loop: the destination is always the
\* name of the source in the target directory
resolve_destination_untested(f, target_dir, source) ==
    Append(target_dir, PathName(source))

resolve_destination(f, target_dir, source) ==
    first_free(f, target_dir, source, Append(target_dir, PathName(source)), 1)

\* move_file with every OSError of the move handled as a permission error
move_file_broad_except(f, fr, source, dest_dir) ==
    LET target_dir == Append(dest_dir, extension_of(source))
        mk         == makedirs(f, target_dir)
    IN  IF mk.err # "none"
        THEN [fs |-> mk.fs, free |-> fr, result |-> "failed", destination |-> <<>>]
        ELSE LET destination == resolve_destination(mk.fs, target_dir, source)
                 mv          == shutil_move(mk.fs, fr, source, destination)
             IN  [fs          |-> mv.fs,
                  free        |-> mv.free,
                  result      |-> IF mv.err = "none" THEN "moved" ELSE "skippedPermission",
                  destination |-> destination]

\* move_file from the return of "await create_directory(target_dir)" to its
\* own return, create_directory's makedirs included.  result is what
\* move_file logs: "moved" (Successfully moved), "skippedPermission" (No
\* permission to move file), "failed" (Error moving / Error processing file)
move_file(f, fr, source, dest_dir) ==
    LET target_dir == Append(dest_dir, extension_of(source))
        mk         == makedirs(f, target_dir)
    IN  IF mk.err # "none"
        THEN [fs |-> mk.fs, free |-> fr, result |-> "failed", destination |-> <<>>]
        ELSE LET destination == resolve_destination(mk.fs, target_dir, source)
                 mv          == shutil_move(mk.fs, fr, source, destination)
             IN  [fs          |-> mv.fs,
                  free        |-> mv.free,
                  result      |-> CASE mv.err = "none" -> "moved"
                                    [] mv.err = "perm" -> "skippedPermission"
                                    [] OTHER           -> "failed",
                  destination |-> destination]

----------------------------------------------------------------------------
(* process_files and main *)

Limit == 10

\* sets of at most this many files are iterated in every order
MaxShuffle == 3

source_dir == resolve(argv.source_dir)
dest_dir == resolve(argv.dest_dir)

Line(level, msg, args) == [level |-> level, msg |-> msg, args |-> args]

\* the extension histogram built over the discovered files
count_extensions(fileset) ==
    [e \in {extension_of(p) : p \in fileset} |->
        Cardinality({p \in fileset : extension_of(p) = e})]

\* sorted(extension_counts.items())
RECURSIVE sorted_items(_, _)
sorted_items(counts, keys) ==
    IF keys = {} THEN <<>>
    ELSE LET k == CHOOSE x \in keys : \A y \in keys \ {x} : StrLess(x, y)
         IN  <<Line("INFO", "extension", <<k, counts[k]>>)>>
               \o sorted_items(counts, keys \ {k})

\* names compared segment by segment
RECURSIVE PathLess(_, _)
PathLess(p, q) ==
    IF Len(q) = 0 THEN FALSE
    ELSE IF Len(p) = 0 THEN TRUE
    ELSE IF p[1] = q[1] THEN PathLess(Tail(p), Tail(q))
    ELSE StrLess(p[1], q[1])

\* the paths of S in ascending order: the i-th has i - 1 paths before it
sorted_paths(S) ==
    [i \in 1..Cardinality(S) |->
        CHOOSE x \in S : Cardinality({y \in S : PathLess(y, x)}) = i - 1]

Reverse(s) == [i \in 1..Len(s) |-> s[Len(s) + 1 - i]]

\* the orders in which "for file in files" may iterate the set: every order
\* of a small set, the ascending and the descending one of a larger set
list_orders(S) ==
    IF Cardinality(S) <= MaxShuffle
    THEN {s \in [1..Cardinality(S) -> S] : \A i, j \in DOMAIN s : i # j => s[i] # s[j]}
    ELSE {sorted_paths(S), Reverse(sorted_paths(S))}

InFlight == {p \in DOMAIN task : task[p] = "move_file"}

\* main_preflight with the two arguments compared as they were typed
main_preflight_unresolved ==
    /\ pc = "start"
    /\ IF ~exists(fs, source_dir)
       THEN /\ log' = Append(log, Line("ERROR", "Source directory does not exist", <<>>))
            /\ pc' = "returned"
       ELSE IF argv.source_dir = argv.dest_dir
       THEN /\ log' = Append(log, Line("ERROR", "Source and destination directories cannot be the same", <<>>))
            /\ pc' = "returned"
       ELSE /\ log' = log
            /\ pc' = "create_dest"
    /\ UNCHANGED <<fs, free, argv, files, extension_counts, total_files,
                   processed_files, semaphore, tasks, task, calls, outcome, fs0, task2_vars>>

\* main up to the second pre-flight check
main_preflight ==
    /\ pc = "start"
    /\ IF ~exists(fs, source_dir)
       THEN /\ log' = Append(log, Line("ERROR", "Source directory does not exist", <<>>))
            /\ pc' = "returned"
       ELSE IF source_dir = dest_dir
       THEN /\ log' = Append(log, Line("ERROR", "Source and destination directories cannot be the same", <<>>))
            /\ pc' = "returned"
       ELSE /\ log' = log
            /\ pc' = "create_dest"
    /\ UNCHANGED <<fs, free, argv, files, extension_counts, total_files,
                   processed_files, semaphore, tasks, task, calls, outcome, fs0, task2_vars>>

\* await create_directory(dest_dir): an error is logged and raised out of main
main_create_directory ==
    /\ pc = "create_dest"
    /\ LET mk == makedirs(fs, dest_dir)
       IN  /\ fs' = mk.fs
           /\ IF mk.err # "none"
              THEN /\ log' = Append(log, Line("ERROR", "Error creating directory", <<>>))
                   /\ pc' = "raised"
              ELSE /\ log' = log
                   /\ pc' = "process_files"
    /\ UNCHANGED <<free, argv, files, extension_counts, total_files,
                   processed_files, semaphore, tasks, task, calls, outcome, fs0, task2_vars>>

\* process_files from the walk to the creation of the tasks
process_files_start ==
    /\ pc = "process_files"
    /\ LET found == get_all_files(fs, source_dir)
       IN  /\ files' = found
           /\ IF found = {}
              THEN /\ log' = Append(log, Line("WARNING", "No accessible files found to process", <<>>))
                   /\ pc' = "finally"
                   /\ UNCHANGED <<extension_counts, total_files, processed_files,
                                  semaphore, tasks, task, calls, outcome>>
              ELSE /\ extension_counts' = count_extensions(found)
                   /\ total_files' = Cardinality(found)
                   /\ processed_files' = 0
                   /\ semaphore' = Limit
                   /\ tasks' \in list_orders(found)
                   /\ task' = [p \in found |-> "pending"]
                   /\ calls' = [p \in found |-> 0]
                   /\ outcome' = [p \in found |-> [result |-> "none", destination |-> <<>>]]
                   /\ log' = log
                   /\ pc' = "gather"
    /\ UNCHANGED <<fs, free, argv, fs0, task2_vars>>

\* acquire without the admission gate: the slot is taken although none is free
acquire_ungated(file) ==
    /\ pc = "gather"
    /\ task[file] = "pending"
    /\ \A i, j \in 1..Len(tasks) : (tasks[j] = file /\ i < j) => task[tasks[i]] # "pending"
    /\ semaphore' = semaphore - 1
    /\ task' = [task EXCEPT ![file] = "move_file"]
    /\ calls' = [calls EXCEPT ![file] = @ + 1]
    /\ UNCHANGED <<fs, free, argv, pc, files, extension_counts, total_files,
                   processed_files, tasks, outcome, log, fs0, task2_vars>>

\* move_with_progress(file) takes a slot and runs move_file up to its await.
\* gather starts the coroutines in the order of the list and the semaphore
\* admits its waiters first come, first served.
acquire(file) ==
    /\ pc = "gather"
    /\ task[file] = "pending"
    /\ \A i, j \in 1..Len(tasks) : (tasks[j] = file /\ i < j) => task[tasks[i]] # "pending"
    /\ semaphore > 0
    /\ semaphore' = semaphore - 1
    /\ task' = [task EXCEPT ![file] = "move_file"]
    /\ calls' = [calls EXCEPT ![file] = @ + 1]
    /\ UNCHANGED <<fs, free, argv, pc, files, extension_counts, total_files,
                   processed_files, tasks, outcome, log, fs0, task2_vars>>

\* move_with_progress with the counter advanced only for a file that was moved
move_with_progress_counts_moved(file) ==
    /\ pc = "gather"
    /\ task[file] = "move_file"
    /\ LET m == move_file(fs, free, file, dest_dir)
       IN  /\ fs' = m.fs
           /\ free' = m.free
           /\ outcome' = [outcome EXCEPT ![file] =
                            [result |-> m.result, destination |-> m.destination]]
           /\ processed_files' = IF m.result = "moved" THEN processed_files + 1
                                 ELSE processed_files
    /\ log' = IF processed_files' % 10 = 0
              THEN Append(log, Line("INFO", "Progress", <<processed_files', total_files>>))
              ELSE log
    /\ semaphore' = semaphore + 1
    /\ task' = [task EXCEPT ![file] = "done"]
    /\ UNCHANGED <<argv, pc, files, extension_counts, total_files, tasks, calls, fs0, task2_vars>>

\* move_with_progress with the test for a multiple of 10 made on the counter
\* before it is advanced
move_with_progress_tests_before_count(file) ==
    /\ pc = "gather"
    /\ task[file] = "move_file"
    /\ LET m == move_file(fs, free, file, dest_dir)
       IN  /\ fs' = m.fs
           /\ free' = m.free
           /\ outcome' = [outcome EXCEPT ![file] =
                            [result |-> m.result, destination |-> m.destination]]
    /\ processed_files' = processed_files + 1
    /\ log' = IF processed_files % 10 = 0
              THEN Append(log, Line("INFO", "Progress", <<processed_files', total_files>>))
              ELSE log
    /\ semaphore' = semaphore + 1
    /\ task' = [task EXCEPT ![file] = "done"]
    /\ UNCHANGED <<argv, pc, files, extension_counts, total_files, tasks, calls, fs0, task2_vars>>

\* move_with_progress with the slot released only after a successful move
move_with_progress_leaks_slot(file) ==
    /\ pc = "gather"
    /\ task[file] = "move_file"
    /\ LET m == move_file(fs, free, file, dest_dir)
       IN  /\ fs' = m.fs
           /\ free' = m.free
           /\ outcome' = [outcome EXCEPT ![file] =
                            [result |-> m.result, destination |-> m.destination]]
           /\ semaphore' = IF m.result = "moved" THEN semaphore + 1 ELSE semaphore
    /\ processed_files' = processed_files + 1
    /\ log' = IF processed_files' % 10 = 0
              THEN Append(log, Line("INFO", "Progress", <<processed_files', total_files>>))
              ELSE log
    /\ task' = [task EXCEPT ![file] = "done"]
    /\ UNCHANGED <<argv, pc, files, extension_counts, total_files, tasks, calls, fs0, task2_vars>>

\* move_with_progress over a move_file that lets the error of a file that was
\* not moved escape: gather raises it and process_files logs it and returns
move_with_progress_raises(file) ==
    /\ pc = "gather"
    /\ task[file] = "move_file"
    /\ LET m == move_file(fs, free, file, dest_dir)
       IN  /\ fs' = m.fs
           /\ free' = m.free
           /\ outcome' = [outcome EXCEPT ![file] =
                            [result |-> m.result, destination |-> m.destination]]
           /\ IF m.result = "moved"
              THEN /\ processed_files' = processed_files + 1
                   /\ log' = IF processed_files' % 10 = 0
                             THEN Append(log, Line("INFO", "Progress", <<processed_files', total_files>>))
                             ELSE log
                   /\ pc' = pc
              ELSE /\ processed_files' = processed_files
                   /\ log' = Append(log, Line("ERROR", "Error during file processing", <<>>))
                   /\ pc' = "finally"
    /\ semaphore' = semaphore + 1
    /\ task' = [task EXCEPT ![file] = "done"]
    /\ UNCHANGED <<argv, files, extension_counts, total_files, tasks, calls, fs0, task2_vars>>

\* move_with_progress(file) from the resumption of move_file to the release
\* of the slot.  The await of create_directory is the only suspension point
\* of move_file: the makedirs that ran in the executor takes effect here, and
\* the collision loop and shutil.move follow it without another coroutine
\* running in between.
move_with_progress(file) ==
    /\ pc = "gather"
    /\ task[file] = "move_file"
    /\ LET m == move_file(fs, free, file, dest_dir)
       IN  /\ fs' = m.fs
           /\ free' = m.free
           /\ outcome' = [outcome EXCEPT ![file] =
                            [result |-> m.result, destination |-> m.destination]]
    /\ processed_files' = processed_files + 1
    /\ log' = IF processed_files' % 10 = 0
              THEN Append(log, Line("INFO", "Progress", <<processed_files', total_files>>))
              ELSE log
    /\ semaphore' = semaphore + 1
    /\ task' = [task EXCEPT ![file] = "done"]
    /\ UNCHANGED <<argv, pc, files, extension_counts, total_files, tasks, calls, fs0, task2_vars>>

\* asyncio.gather returns; the summary is logged
process_files_summary ==
    /\ pc = "gather"
    /\ \A p \in DOMAIN task : task[p] = "done"
    /\ log' = log \o <<Line("INFO", "Processing completed. Total files processed", <<total_files>>),
                       Line("INFO", "Files processed by extension", <<>>)>>
                  \o sorted_items(extension_counts, DOMAIN extension_counts)
    /\ pc' = "finally"
    /\ UNCHANGED <<fs, free, argv, files, extension_counts, total_files,
                   processed_files, semaphore, tasks, task, calls, outcome, fs0, task2_vars>>

\* the finally clause of main
main_finally ==
    /\ pc = "finally"
    /\ log' = Append(log, Line("INFO", "Process finished", <<>>))
    /\ pc' = "returned"
    /\ UNCHANGED <<fs, free, argv, files, extension_counts, total_files,
                   processed_files, semaphore, tasks, task, calls, outcome, fs0, task2_vars>>

\* move_file catches every Exception, so gather raises nothing and the except
\* clauses of process_files and of main are never entered.
Next ==
    \/ main_preflight
    \/ main_create_directory
    \/ process_files_start
    \/ \E file \in DOMAIN task : acquire(file)
    \/ \E file \in DOMAIN task : move_with_progress(file)
    \/ process_files_summary
    \/ main_finally

----------------------------------------------------------------------------
(* The initial worlds: command lines and filesystems *)

n_src == <<"s", "r", "c">>
n_dst == <<"d", "s", "t">>
n_out == <<"o", "u", "t">>
n_sub == <<"s", "u", "b">>
n_nope == <<"n", "o", "p", "e">>
n_git == <<".", "g", "i", "t">>
n_windows == <<"W", "i", "n", "d", "o", "w", "s">>
n_recycle == <<"$", "R", "e", "c", "y", "c", "l", "e", ".", "B", "i", "n">>
n_txt == <<"t", "x", "t">>
n_a_txt == <<"a", ".", "t", "x", "t">>
n_a_1_txt == <<"a", "_", "1", ".", "t", "x", "t">>
n_photo_jpg == <<"p", "h", "o", "t", "o", ".", "J", "P", "G">>
n_readme == <<"R", "E", "A", "D", "M", "E">>
n_report_pdf == <<"R", "E", "P", "O", "R", "T", ".", "P", "D", "F">>
n_bashrc == <<".", "b", "a", "s", "h", "r", "c">>
n_secret_dat == <<"s", "e", "c", "r", "e", "t", ".", "d", "a", "t">>

\* how many of the Features one world combines
MaxFeatures == 3
\* bytes free on each volume of a world whose disk is not full
DiskFree == 8
\* the number of files of the world of SpecGate
GateFiles == 11

Features ==
    { "a",            \* src/a.txt
      "a_unreadable", \* src/a.txt, which cannot be opened
      "sub_a",        \* src/sub/a.txt
      "sub_readonly", \* src/sub/a.txt in a directory that cannot be written
      "sub_noscan",   \* src/sub/a.txt in a directory that cannot be scanned
      "jpg",          \* src/photo.JPG
      "readme",       \* src/sub/README
      "pdf",          \* src/REPORT.PDF
      "dotfile",      \* src/.bashrc
      "hidden",       \* src/.git/sub/a.txt
      "system",       \* src/sub/$Recycle.Bin/secret.dat
      "dest_missing", \* the destination root does not exist
      "dest_file",    \* the destination root is a regular file
      "dest_readonly",\* the destination root cannot be written
      "d_a",          \* <dest>/txt/a.txt
      "d_a1",         \* <dest>/txt/a_1.txt
      "txt_readonly", \* <dest>/txt cannot be written
      "xdev",         \* the destination root is another volume
      "disk_full" }   \* one byte is free on the destination volume

\* the command lines: <<source_dir, dest_dir>>
CommandLines ==
    { <<  <<n_src>>,          <<n_dst>>  >>,
      <<  <<n_src>>,          <<n_src, n_out>>  >>,
      <<  <<n_src>>,          <<n_src>>  >>,
      <<  <<n_src, Dot>>,     <<n_dst, DotDot, n_src>>  >>,
      <<  <<n_nope>>,         <<n_dst>>  >>,
      <<  <<n_windows>>,      <<n_dst>>  >> }

Node(kind, data, r, w, dev) ==
    [kind |-> kind, data |-> data, r |-> r, w |-> w, dev |-> dev]

\* f with the nodes of g added where f has none
Under(f, g) == [p \in DOMAIN f \cup DOMAIN g |-> IF p \in DOMAIN f THEN f[p] ELSE g[p]]

Empty == [p \in {} |-> 0]
Only(cond, f) == IF cond THEN f ELSE Empty
One(p, node) == [q \in {p} |-> node]

\* the filesystem of the world that has the features F, with destination root D
World(F, D) ==
    LET S    == <<n_src>>
        sub  == <<n_src, n_sub>>
        ddev == IF "xdev" \in F THEN "sdb" ELSE "sda"
        T    == Append(D, n_txt)
        hasSub == F \cap {"sub_a", "sub_readonly", "sub_noscan", "readme", "system"} # {}
        hasTxt == F \cap {"d_a", "d_a1", "txt_readonly"} # {}
        destTree ==
            IF "dest_missing" \in F THEN Empty
            ELSE IF "dest_file" \in F THEN One(D, Node("file", <<9>>, TRUE, TRUE, ddev))
            ELSE Under(One(D, Node("dir", <<>>, TRUE, "dest_readonly" \notin F, ddev)),
                 Under(Only(hasTxt, One(T, Node("dir", <<>>, TRUE, "txt_readonly" \notin F, ddev))),
                 Under(Only("d_a" \in F, One(Append(T, n_a_txt), FileNode(<<3, 3>>, ddev))),
                       Only("d_a1" \in F, One(Append(T, n_a_1_txt), FileNode(<<4, 4>>, ddev))))))
        sourceTree ==
            Under(Only(F \cap {"a", "a_unreadable"} # {},
                       One(Append(S, n_a_txt),
                           Node("file", <<1, 1>>, "a_unreadable" \notin F, TRUE, "sda"))),
            Under(Only(hasSub,
                       One(sub, Node("dir", <<>>, "sub_noscan" \notin F,
                                     "sub_readonly" \notin F, "sda"))),
            Under(Only(F \cap {"sub_a", "sub_readonly", "sub_noscan"} # {},
                       One(Append(sub, n_a_txt), FileNode(<<2, 2>>, "sda"))),
            Under(Only("jpg" \in F, One(Append(S, n_photo_jpg), FileNode(<<5, 5>>, "sda"))),
            Under(Only("readme" \in F, One(Append(sub, n_readme), FileNode(<<6>>, "sda"))),
            Under(Only("pdf" \in F, One(Append(S, n_report_pdf), FileNode(<<5, 6>>, "sda"))),
            Under(Only("dotfile" \in F, One(Append(S, n_bashrc), FileNode(<<6, 6>>, "sda"))),
            Under(Only("hidden" \in F,
                       Under(One(Append(S, n_git), DirNode("sda")),
                       Under(One(<<n_src, n_git, n_sub>>, DirNode("sda")),
                             One(<<n_src, n_git, n_sub, n_a_txt>>, FileNode(<<7, 7>>, "sda"))))),
                  Only("system" \in F,
                       Under(One(Append(sub, n_recycle), DirNode("sda")),
                             One(<<n_src, n_sub, n_recycle, n_secret_dat>>,
                                 FileNode(<<8, 8>>, "sda"))))))))))))
        base ==
            Under(One(<<>>, DirNode("sda")),
            Under(One(S, DirNode("sda")),
            Under(One(<<n_windows>>, DirNode("sda")),
                  One(<<n_windows, n_a_txt>>, FileNode(<<1, 2>>, "sda")))))
    IN  Under(destTree, Under(sourceTree, base))

WorldFree(F) ==
    [d \in {"sda", "sdb"} |->
        IF "disk_full" \in F /\ d = (IF "xdev" \in F THEN "sdb" ELSE "sda")
        THEN 1 ELSE DiskFree]

\* task2.py is not run
Task2NotRun ==
    /\ pc2 = "not_run"
    /\ text = <<>>
    /\ num_workers = 4
    /\ mapped_data = <<>>
    /\ word_frequencies = Empty

InitProgram ==
    /\ Task2NotRun
    /\ pc = "start"
    /\ files = {}
    /\ extension_counts = Empty
    /\ total_files = 0
    /\ processed_files = 0
    /\ semaphore = Limit
    /\ tasks = <<>>
    /\ task = Empty
    /\ calls = Empty
    /\ outcome = Empty
    /\ log = <<>>
    /\ fs0 = fs

\* main starts on one of the command lines, in a world of at most n features
InitOver(n) ==
    /\ \E F \in {X \in SUBSET Features : Cardinality(X) <= n} :
       \E cl \in CommandLines :
          /\ argv = [source_dir |-> cl[1], dest_dir |-> cl[2]]
          /\ fs = World(F, resolve(cl[2]))
          /\ free = WorldFree(F)
    /\ InitProgram

Init == InitOver(MaxFeatures)

Spec == Init /\ [][Next]_vars

\* The world of SpecGate: GateFiles files below src.  The first lies in a
\* directory that cannot be written, the second has a key whose directory
\* cannot be created (dst/dat is a regular file), the name of the third is
\* taken in dst/txt, the others are src/f4.txt, src/f5.txt, ...
gate_name(i) ==
    <<"f">> \o str(i) \o (IF i = 2 THEN <<".", "d", "a", "t">> ELSE <<".", "t", "x", "t">>)

gate_path(i) == IF i = 1 THEN <<n_src, n_sub, gate_name(i)>> ELSE <<n_src, gate_name(i)>>

GateWorld ==
    Under([p \in {gate_path(i) : i \in 1..GateFiles} |-> FileNode(<<1, 1>>, "sda")],
    Under(One(<<n_src, n_sub>>, Node("dir", <<>>, TRUE, FALSE, "sda")),
    Under(One(<<n_dst, <<"d", "a", "t">> >>, FileNode(<<9>>, "sda")),
    Under(One(<<n_dst, n_txt, gate_name(3)>>, FileNode(<<3, 3>>, "sda")),
          World({"d_a"}, <<n_dst>>)))))

InitGate ==
    /\ argv = [source_dir |-> <<n_src>>, dest_dir |-> <<n_dst>>]
    /\ fs = GateWorld
    /\ free = WorldFree({})
    /\ InitProgram

SpecGate == InitGate /\ [][Next]_vars

\* The step in which some coroutine in flight returns from move_file: it is
\* possible exactly when move_with_progress(file) is, for the same file, and
\* only move_with_progress(file) takes a task from "move_file" to "done".
move_file_returns ==
    \E file \in DOMAIN task :
        /\ pc = "gather"
        /\ task[file] = "move_file"
        /\ task' = [task EXCEPT ![file] = "done"]

\* asyncio.run drives the event loop until main returns: main runs on, the
\* first waiter of the semaphore gets a slot that is free, the makedirs
\* handed to the executor finishes and its coroutine is resumed, and gather
\* returns once every task is done.
Fairness ==
    /\ WF_vars(main_preflight)
    /\ WF_vars(main_create_directory)
    /\ WF_vars(process_files_start)
    /\ WF_vars(\E file \in DOMAIN task : acquire(file))
    /\ WF_task(move_file_returns)
    /\ WF_vars(process_files_summary)
    /\ WF_vars(main_finally)

\* how many of the Features one world of SpecFair combines
MaxFairFeatures == 2

InitFair == InitOver(MaxFairFeatures)

SpecFair == InitFair /\ [][Next]_vars /\ Fairness

SpecGateFair == InitGate /\ [][Next]_vars /\ Fairness

----------------------------------------------------------------------------
(* task2.py: the word counter *)

\* the class \w of re, on ASCII: letters, digits and the underscore
IsWordChar(c) ==
    \/ LowerChar(c) # c
    \/ c \in {"a", "b", "c", "d", "e", "f", "g", "h", "i", "j", "k", "l", "m",
              "n", "o", "p", "q", "r", "s", "t", "u", "v", "w", "x", "y", "z"}
    \/ c \in {"0", "1", "2", "3", "4", "5", "6", "7", "8", "9", "_"}

\* re.findall(r'\b\w+\b', s), scanning s from the left with the word so far
\* in word: the matches are the maximal runs of word characters
RECURSIVE findall(_, _)
findall(s, word) ==
    LET found == IF word = <<>> THEN <<>> ELSE <<word>>
    IN  IF s = <<>> THEN found
        ELSE IF IsWordChar(Head(s)) THEN findall(Tail(s), Append(word, Head(s)))
        ELSE found \o findall(Tail(s), <<>>)

\* MapReduce.map_function
map_function(t) ==
    LET words == SelectSeq(findall(lower(t), <<>>), LAMBDA word : Len(word) > 2)
    IN  [i \in 1..Len(words) |-> <<words[i], 1>>]

\* word_counts[word] += count over the pairs of a list
RECURSIVE count_of(_, _)
count_of(word, pairs) ==
    IF pairs = <<>> THEN 0
    ELSE (IF Head(pairs)[1] = word THEN Head(pairs)[2] ELSE 0) + count_of(word, Tail(pairs))

\* MapReduce.reduce_function
reduce_function(pairs) ==
    [word \in {pairs[i][1] : i \in 1..Len(pairs)} |-> count_of(word, pairs)]

\* [text[i:i + chunk_size] for i in range(0, len(text), chunk_size)]
chunks_of(t, chunk_size) ==
    [k \in 1..((Len(t) + chunk_size - 1) \div chunk_size) |->
        SubSeq(t, (k - 1) * chunk_size + 1,
               IF k * chunk_size < Len(t) THEN k * chunk_size ELSE Len(t))]

\* [item for sublist in mapped_chunks for item in sublist]
RECURSIVE flatten(_)
flatten(lists) ==
    IF lists = <<>> THEN <<>> ELSE Head(lists) \o flatten(Tail(lists))

\* MapReduce.parallel_map: executor.map returns the results in the order of
\* the chunks, whichever thread maps which chunk
parallel_map(t, workers) ==
    LET chunk_size == IF Len(t) \div workers > 1 THEN Len(t) \div workers ELSE 1
        chunks     == chunks_of(t, chunk_size)
    IN  flatten([k \in 1..Len(chunks) |-> map_function(chunks[k])])

\* the longest text fetch_text returns
MaxTextLen == 6
\* MapReduce is constructed with 1..MaxWorkers workers; main passes 4
MaxWorkers == 4

\* the characters of a fetched text
TextChars == {"a", "B", " "}

Texts == UNION {[1..n -> TextChars] : n \in 0..MaxTextLen}

\* main: input(), then "q" ends it, an empty text asks again, and a text is
\* handed to a new MapReduce.  What the round before left in mapped_data and
\* word_frequencies is read by nothing before it is assigned again, and is
\* dropped here.
task2_input ==
    /\ pc2 = "input"
    /\ \/ /\ pc2' = "finished"
          /\ UNCHANGED <<text, num_workers>>
       \/ \E t \in Texts :
             /\ text' = t
             /\ IF t = <<>>
                THEN pc2' = "input" /\ UNCHANGED num_workers
                ELSE pc2' = "parallel_map" /\ num_workers' \in 1..MaxWorkers
    /\ mapped_data' = <<>>
    /\ word_frequencies' = Empty
    /\ UNCHANGED task1_vars

\* mapped_data = mapreduce.parallel_map(text)
task2_parallel_map ==
    /\ pc2 = "parallel_map"
    /\ mapped_data' = parallel_map(text, num_workers)
    /\ pc2' = "reduce_function"
    /\ UNCHANGED <<text, num_workers, word_frequencies, task1_vars>>

\* word_frequencies = mapreduce.reduce_function(mapped_data)
task2_reduce_function ==
    /\ pc2 = "reduce_function"
    /\ word_frequencies' = reduce_function(mapped_data)
    /\ pc2' = "visualize_top_words"
    /\ UNCHANGED <<text, num_workers, mapped_data, task1_vars>>

\* visualize_top_words(word_frequencies): zip(*[]) of an empty dict cannot be
\* unpacked into words and counts (ValueError); otherwise main asks again
task2_visualize_top_words ==
    /\ pc2 = "visualize_top_words"
    /\ pc2' = IF DOMAIN word_frequencies = {} THEN "raised" ELSE "input"
    /\ UNCHANGED <<text, num_workers, mapped_data, word_frequencies, task1_vars>>

NextWords ==
    \/ task2_input
    \/ task2_parallel_map
    \/ task2_reduce_function
    \/ task2_visualize_top_words

\* task1.py is not run
InitWords ==
    /\ pc2 = "input"
    /\ text = <<>>
    /\ num_workers = 4
    /\ mapped_data = <<>>
    /\ word_frequencies = Empty
    /\ argv = [source_dir |-> <<>>, dest_dir |-> <<>>]
    /\ fs = One(<<>>, DirNode("sda"))
    /\ free = WorldFree({})
    /\ pc = "not_run"
    /\ files = {}
    /\ extension_counts = Empty
    /\ total_files = 0
    /\ processed_files = 0
    /\ semaphore = Limit
    /\ tasks = <<>>
    /\ task = Empty
    /\ calls = Empty
    /\ outcome = Empty
    /\ log = <<>>
    /\ fs0 = fs

SpecWords == InitWords /\ [][NextWords]_vars

----------------------------------------------------------------------------
(* Properties *)

\* asyncio.gather has returned
Gathered == files # {} /\ pc \in {"finally", "returned"}

\* C1: at every instant at most Limit (10) relocations are in flight, that
\* is, at most 10 coroutines have entered move_file and not yet returned
C1_InFlightBounded == Cardinality(InFlight) <= Limit

\* all 10 slots are taken while a further coroutine waits for one
C1_GateHolds ==
    /\ Cardinality(InFlight) = Limit
    /\ \E p \in DOMAIN task : task[p] = "pending"

\* C2: move_file is called exactly once for every discovered file, never
\* twice and for none not at all, and when gather returns processed_files
\* equals the number of discovered files
C2_OneAttemptPerFile ==
    /\ DOMAIN calls = files
    /\ \A p \in files : /\ calls[p] <= 1
                        /\ calls[p] = 1 <=> task[p] # "pending"
    /\ processed_files = Cardinality({p \in files : task[p] = "done"})
    /\ Gathered => /\ \A p \in files : calls[p] = 1
                   /\ processed_files = Cardinality(files)
                   /\ total_files = Cardinality(files)

\* gather has returned over more files than slots, some of which were not moved
C2_AllAttempted ==
    /\ Gathered
    /\ Cardinality(files) > Limit
    /\ \E p \in files : outcome[p].result = "skippedPermission"
    /\ \E p \in files : outcome[p].result = "failed"
    /\ \E p \in files : outcome[p].result = "moved"

\* the step in which move_file returns for file
Returns(file) == task[file] = "move_file" /\ task'[file] = "done"

Logged(msg) == \E i \in 1..Len(log) : log[i].msg = msg

\* C3: the count recorded for an extension key is, at every point of a run
\* and in the summary, the number of files with that key that have been
\* moved; a skipped or failed file, or one not moved yet, is not counted
C3_OnlyMovedCounted ==
    \A e \in DOMAIN extension_counts :
        extension_counts[e] =
            Cardinality({p \in files : extension_of(p) = e /\ outcome[p].result = "moved"})

\* C4: on every path by which main exits, "Process finished" has been logged
C4_FinishedAlwaysLogged ==
    pc \in {"returned", "raised"} => Logged("Process finished")

\* the source directory is missing, or is the destination once both are resolved
PreflightFails == ~exists(fs0, source_dir) \/ source_dir = dest_dir

\* C5: when the source directory does not exist or source and destination
\* resolve to the same path, main logs one error and does nothing else: no
\* directory is created, no walk is made, no file is moved
C5_FailFast ==
    PreflightFails =>
        /\ fs = fs0
        /\ files = {}
        /\ DOMAIN task = {}
        /\ pc \in {"start", "returned"}
        /\ pc = "returned" => /\ Len(log) = 1
                              /\ log[1].level = "ERROR"

\* main has returned on two arguments that differ as typed and resolve to
\* one directory, which holds a file
C5_SamePathRefused ==
    /\ pc = "returned"
    /\ source_dir = dest_dir
    /\ argv.source_dir # argv.dest_dir
    /\ \E p \in DOMAIN fs : is_file(fs, p) /\ Parent(p) = source_dir

\* p has, strictly below the source root, an ancestor directory that is
\* protected or hidden
BadAncestor(p) ==
    \E i \in (Len(source_dir) + 1)..(Len(p) - 1) :
        p[i] \in SYSTEM_DIRS \/ startswith(p[i], ".")

\* C6: no path returned by get_all_files has, strictly below the root, an
\* ancestor directory named in SYSTEM_DIRS or named with a leading "."
C6_NoProtectedNoHidden ==
    \A p \in files : IsPrefix(source_dir, p) /\ ~BadAncestor(p)

\* the walk returned files from a tree that holds readable files below a
\* hidden directory and below a protected one, two levels down
C6_TreeHasBoth ==
    /\ files # {}
    /\ \E q \in DOMAIN fs0 :
          /\ is_file(fs0, q) /\ fs0[q].r /\ IsPrefix(source_dir, q)
          /\ \E i \in (Len(source_dir) + 1)..(Len(q) - 2) : startswith(q[i], ".")
    /\ \E q \in DOMAIN fs0 :
          /\ is_file(fs0, q) /\ fs0[q].r /\ IsPrefix(source_dir, q)
          /\ \E i \in (Len(source_dir) + 2)..(Len(q) - 1) : q[i] \in SYSTEM_DIRS

\* the k-th path of the sequence name, <stem>_1<suffix>, <stem>_2<suffix>, ...
Candidate(target_dir, source, k) ==
    Append(target_dir,
           IF k = 0 THEN PathName(source)
           ELSE stem(PathName(source)) \o <<"_">> \o str(k) \o suffix(PathName(source)))

\* C7: the destination move_file resolves is the first path of the sequence
\* name, <stem>_1<suffix>, <stem>_2<suffix>, ... in the target directory at
\* which nothing exists: nothing exists at it and something exists at every
\* earlier path of the sequence
C7_FirstFreeCandidate ==
    [][\A file \in DOMAIN task :
          (Returns(file) /\ outcome'[file].destination # <<>>) =>
              LET d   == outcome'[file].destination
                  dir == Append(dest_dir, extension_of(file))
              IN  \E k \in 0..Cardinality(DOMAIN fs) :
                     /\ d = Candidate(dir, file, k)
                     /\ ~exists(fs, d)
                     /\ \A j \in 0..(k - 1) : exists(fs, Candidate(dir, file, j))]_vars

\* a.txt and a_1.txt were in the target directory and a.txt went to a_2.txt
C7_SecondCounter ==
    \E p \in DOMAIN outcome :
        /\ PathName(p) = n_a_txt
        /\ outcome[p].result = "moved"
        /\ outcome[p].destination = Append(Parent(outcome[p].destination),
                                           <<"a", "_", "2", ".", "t", "x", "t">>)
        /\ is_file(fs0, Append(Parent(outcome[p].destination), n_a_txt))
        /\ is_file(fs0, Append(Parent(outcome[p].destination), n_a_1_txt))

\* C8: every file that was below the destination root before the run is
\* there with the same content at every point of the run, and a source file
\* of the same name and key goes to a counter-suffixed name
C8_PreexistingKept ==
    \A q \in DOMAIN fs0 :
        (is_file(fs0, q) /\ IsPrefix(dest_dir, q) /\ q # dest_dir) =>
            /\ is_file(fs, q)
            /\ fs[q].data = fs0[q].data
            /\ \A p \in DOMAIN outcome :
                  outcome[p].result = "moved" => outcome[p].destination # q

\* C9: in the step in which move_file returns with a successful move, the
\* source path exists no longer and the resolved destination, at which
\* nothing existed, holds the content the source held before the step
C9_MovedRoundTrip ==
    [][\A file \in DOMAIN task :
          (Returns(file) /\ outcome'[file].result = "moved") =>
              LET d == outcome'[file].destination
              IN  /\ is_file(fs, file)
                  /\ ~exists(fs, d)
                  /\ ~exists(fs', file)
                  /\ is_file(fs', d)
                  /\ fs'[d].data = fs[file].data]_vars

\* a file was moved to another volume, by copy and unlink
C9_MovedAcrossVolumes ==
    \E p \in DOMAIN outcome :
        /\ outcome[p].result = "moved"
        /\ is_file(fs, outcome[p].destination)
        /\ fs[outcome[p].destination].dev # fs0[p].dev

\* C10 as stated: in the step in which move_file returns after a permission
\* error of the move, the source is in place and unchanged and no entry has
\* been created at the resolved destination
C10_SkippedLeavesNoEntry ==
    [][\A file \in DOMAIN task :
          (Returns(file) /\ outcome'[file].result = "skippedPermission") =>
              /\ pc' = "gather"
              /\ is_file(fs', file)
              /\ fs'[file] = fs[file]
              /\ ~exists(fs', outcome'[file].destination)]_vars

\* C10 as amended: in the step in which move_file returns after a permission
\* error of the move, gather goes on, the source is in place and unchanged,
\* and at the resolved destination there is either no entry or a complete
\* copy of the source, made by shutil.move before the removal of the source
\* was refused
C10_SkippedKeepsSource ==
    [][\A file \in DOMAIN task :
          (Returns(file) /\ outcome'[file].result = "skippedPermission") =>
              LET d == outcome'[file].destination
              IN  /\ pc' = "gather"
                  /\ is_file(fs', file)
                  /\ fs'[file] = fs[file]
                  /\ ~exists(fs, d)
                  /\ \/ ~exists(fs', d)
                     \/ is_file(fs', d) /\ fs'[d].data = fs[file].data]_vars

\* a move was skipped for permission, once with nothing at the destination
\* and once with a copy left there
C10_SkippedBothWays ==
    /\ \E p \in DOMAIN outcome :
          /\ outcome[p].result = "skippedPermission"
          /\ exists(fs, outcome[p].destination)
    /\ \E p \in DOMAIN outcome :
          /\ outcome[p].result = "skippedPermission"
          /\ ~exists(fs, outcome[p].destination)

\* C11: in the step in which move_file returns after a move that failed
\* with an error other than a permission error, the source file is still in
\* place and nothing, in particular no truncated copy, exists at the resolved
\* destination
C11_FailedLeavesNoPartial ==
    [][\A file \in DOMAIN task :
          (Returns(file) /\ outcome'[file].result = "failed"
                         /\ outcome'[file].destination # <<>>) =>
              /\ is_file(fs', file)
              /\ fs'[file] = fs[file]
              /\ ~exists(fs', outcome'[file].destination)]_vars

\* C12: once the tasks are dispatched, whatever fails for one file
\* (directory creation, a permission error, any other error of the move),
\* the run goes on until move_file has returned for every file, gather has
\* returned and the summary is logged
C12_FailuresIsolated ==
    [](pc = "gather" =>
         <>(/\ Gathered
            /\ \A p \in files : task[p] = "done" /\ outcome[p].result # "none"
            /\ Logged("Processing completed. Total files processed")))

\* the summary is logged over a run in which one file was moved after the
\* relocation of another had failed
C12_MovedAfterFailure ==
    /\ Logged("Processing completed. Total files processed")
    /\ \E p, q \in files :
          /\ outcome[p].result \in {"failed", "skippedPermission"}
          /\ outcome[q].result = "moved"
          /\ \E i, j \in 1..Len(tasks) : tasks[i] = p /\ tasks[j] = q /\ i < j
          /\ processed_files = Cardinality(files)

\* the progress notifications logged so far, in the order of the log
ProgressLines == SelectSeq(log, LAMBDA l : l.msg = "Progress")

IsKey(name, key) ==
    LET LastDot(i) == name[i] = "." /\ \A j \in (i + 1)..Len(name) : name[j] # "."
        Splits     == {i \in 2..(Len(name) - 1) : LastDot(i)}
    IN  IF Splits = {} THEN key = no_extension
        ELSE \E i \in Splits : key = lower(SubSeq(name, i + 1, Len(name)))

GateTask(i, position) ==
    gate_path(i) \in DOMAIN task /\ task[gate_path(i)] = position

\* C15: a coroutine is inside move_file only while it holds a slot, so the
\* free slots are always 10 less the coroutines in flight; under the
\* fairness of the event loop every run comes to the point from which each
\* of the tasks has taken its slot (one call of move_file) and has returned,
\* whatever the outcome of its move; and when gather has returned all 10
\* slots are free
C15_SlotsTakenAndReturned ==
    /\ [](semaphore = Limit - Cardinality(InFlight))
    /\ [](\A p \in DOMAIN task : task[p] = "done" => calls[p] = 1)
    /\ <>[](\A i \in 1..GateFiles : GateTask(i, "done"))
    /\ [](Gathered => semaphore = Limit /\ \A p \in files : task[p] = "done")

\* gather has returned over more files than slots, one skipped and one
\* failed among them, and every slot is free
C15_AllSlotsFree ==
    /\ Gathered
    /\ semaphore = Limit
    /\ Cardinality(files) > Limit
    /\ \E p \in files : outcome[p].result = "skippedPermission"
    /\ \E p \in files : outcome[p].result = "failed"
    /\ \A i \in 1..GateFiles : GateTask(i, "done")

\* get_all_files has returned to process_files
Walked == pc \in {"gather", "finally", "returned"} /\ ~PreflightFails

\* every directory from the source root down to the parent of p can be scanned
Scannable(p) ==
    \A n \in Len(source_dir)..(Len(p) - 1) : fs0[SubSeq(p, 1, n)].r

\* C16: a file that cannot be opened and a subdirectory that cannot be
\* scanned take only themselves out of the result of the walk: get_all_files
\* returns exactly the regular files below the root that can be opened, lie
\* outside protected and hidden directories and have no directory that
\* cannot be scanned above them
C16_DeniedEntryExcludedAlone ==
    (Walked /\ PathName(source_dir) \notin SYSTEM_DIRS) =>
        files = {q \in DOMAIN fs0 :
                    /\ is_file(fs0, q)
                    /\ IsPrefix(source_dir, q)
                    /\ ~BadAncestor(q)
                    /\ Scannable(q)
                    /\ fs0[q].r}

\* the walk returned a file from a root that also holds a file that cannot
\* be opened and a subdirectory, with a file in it, that cannot be scanned
C16_SiblingsOfDenied ==
    /\ Walked
    /\ files # {}
    /\ \E q \in DOMAIN fs0 :
          is_file(fs0, q) /\ Parent(q) = source_dir /\ ~fs0[q].r
    /\ \E q \in DOMAIN fs0 :
          /\ is_file(fs0, q) /\ fs0[q].r
          /\ Len(q) = Len(source_dir) + 2 /\ IsPrefix(source_dir, q)
          /\ ~fs0[Parent(q)].r
          /\ q \notin files

\* the ancestors of p and p itself
Prefixes(p) == {SubSeq(p, 1, n) : n \in 0..Len(p)}

\* C17: a source root whose own name is in SYSTEM_DIRS yields no file; and
\* when the walk has yielded no file, no task exists, no file has been moved,
\* the only directories created are the destination root and its ancestors,
\* and the log holds the warning and no summary line
C17_NothingFoundNothingDone ==
    /\ (Walked /\ PathName(source_dir) \in SYSTEM_DIRS) => files = {}
    /\ (Walked /\ files = {}) =>
          /\ DOMAIN task = {}
          /\ tasks = <<>>
          /\ \A p \in DOMAIN fs0 : p \in DOMAIN fs /\ fs[p] = fs0[p]
          /\ DOMAIN fs \ DOMAIN fs0 \subseteq Prefixes(dest_dir)
          /\ Logged("No accessible files found to process")
          /\ ~Logged("Processing completed. Total files processed")
          /\ ~Logged("Files processed by extension")
          /\ ~Logged("extension")
          /\ ~Logged("Progress")
          /\ pc = "returned" =>
                log = <<Line("WARNING", "No accessible files found to process", <<>>),
                        Line("INFO", "Process finished", <<>>)>>

\* main has returned from a run on the root Windows, which holds a file that
\* can be opened
C17_ProtectedRootIgnored ==
    /\ pc = "returned"
    /\ Walked
    /\ PathName(source_dir) \in SYSTEM_DIRS
    /\ \E q \in DOMAIN fs :
          is_file(fs, q) /\ Parent(q) = source_dir /\ fs[q].r

\* C18: files of one run that were moved are at pairwise distinct
\* destinations, and each destination holds, at every later point of the
\* run, the content its own source had: no relocation overwrites another,
\* in whatever order the coroutines are resumed
C18_NoOverwriteBetweenTasks ==
    /\ \A p, q \in DOMAIN outcome :
          (p # q /\ outcome[p].result = "moved" /\ outcome[q].result = "moved") =>
              outcome[p].destination # outcome[q].destination
    /\ \A p \in DOMAIN outcome :
          outcome[p].result = "moved" =>
              /\ is_file(fs, outcome[p].destination)
              /\ fs[outcome[p].destination].data = fs0[p].data

\* two files of the same name from different directories overlap: q entered
\* move_file first and is still inside it, p entered after q and has been
\* moved to the plain name in the directory q is headed for
C18_SameNameInFlight ==
    \E p, q \in DOMAIN task :
        /\ p # q
        /\ PathName(p) = PathName(q)
        /\ Parent(p) # Parent(q)
        /\ \E i, j \in 1..Len(tasks) : tasks[i] = q /\ tasks[j] = p /\ i < j
        /\ task[q] = "move_file"
        /\ outcome[p].result = "moved"
        /\ outcome[p].destination = Append(Append(dest_dir, extension_of(p)), PathName(p))
        /\ fs0[p].data # fs0[q].data

\* C19: the frequencies main gets from reduce_function over parallel_map
\* are those of reduce_function over map_function of the whole text
C19_ChunkingKeepsCounts ==
    pc2 \in {"visualize_top_words", "raised"} =>
        word_frequencies = reduce_function(map_function(text))

====
